---- MODULE Spec2Model ----
(***************************************************************************)
(* Event consumption layer of inoix.io: the two consumer classes           *)
(* (ionix_consumer/IonixConsumer.py and fsd.py) and the two simulated     *)
(* queues (ionix_consumer/SimulatedQueue.py and fsd.py).                  *)
(*                                                                         *)
(* One run exercises one of the two programs (prog): the package           *)
(* ionix_consumer, whose consumer has register_handler/consume_message,    *)
(* or fsd.py, whose consumer has register_event/set_event_stream/          *)
(* consume_event.  The programs are single threaded: pc is the position of *)
(* the one thread (idle, between two iterations of a consume_event loop,   *)
(* or inside a handler).                                                   *)
(***************************************************************************)
EXTENDS Integers, Sequences, FiniteSets, TLC

(***************************************************************************)
(* Bounds of the model.                                                    *)
(***************************************************************************)
\* longest bound event stream (elements a generator yields, length of a list)
MaxStream == 3
\* largest poll_times argument of consume_event
MaxPollTimes == 2
\* the passes of one stream element to the dispatch are counted up to this
MaxPasses == 2
\* iterations of the poll loop of test.py followed (range(10) in the source)
MaxDriverPolls == 2
\* calls each of the two threads on a shared consumer makes
MaxThreadCalls == 2

(***************************************************************************)
(* Python values.  Scalars are strings; None and "key not in the dict"     *)
(* are two reserved strings.  A decoded JSON value is a record: its type   *)
(* tag and, for a dict, the values under "event_type" and "payload".       *)
(***************************************************************************)
PyNone == "<None>"
Absent == "<absent>"

Value(t, et, pl) == [t |-> t, event_type |-> et, payload |-> pl]
NoValue == Value("none", Absent, Absent)

\* event types the simulated queues produce
EventTypes == {"ACCOUNT_CREATED", "USER_ADDED", "USER_DELETED"}
\* the payload the fixtures attach to each event type
PayloadOf(et) ==
  CASE et = "ACCOUNT_CREATED" -> "{id: 1000}"
    [] et = "USER_ADDED"      -> "{username: user_1}"
    [] OTHER                  -> "{username: user_2}"

\* JSON objects: event_type absent, empty or a type name; payload absent or not
Envelopes ==
  { Value("dict", et, PayloadOf(et)) : et \in EventTypes \cup {Absent, ""} }
    \cup { Value("dict", "ACCOUNT_CREATED", Absent) }
\* JSON texts that parse to something other than an object
NonMaps == { Value("list", Absent, Absent), Value("int", Absent, Absent),
             Value("str", Absent, Absent) }

(***************************************************************************)
(* Raw messages (str).  text is "empty" for the empty string, "garbled"    *)
(* for text json cannot parse, "json" for the serialization of val.        *)
(* NoRaw is None where a str is expected (raw_event=None, poll's None).    *)
(***************************************************************************)
Raw(text, val) == [text |-> text, val |-> val]
NoRaw == Raw("None", NoValue)
RawEmpty == Raw("empty", NoValue)
RawGarbled == Raw("garbled", NoValue)
json_dumps(val) == Raw("json", val)
Raws == {RawEmpty, RawGarbled} \cup { json_dumps(v) : v \in Envelopes \cup NonMaps }

\* json.loads: the value, or JSONDecodeError
json_loads(raw) ==
  IF raw.text = "json" THEN [ok |-> TRUE, value |-> raw.val]
  ELSE [ok |-> FALSE, value |-> NoValue]

\* bool(x) of a str or None
Truthy(s) == s \notin {PyNone, ""}
\* bool(raw) of a raw message or None
TruthyRaw(raw) == raw.text \notin {"None", "empty"}

\* event.get(key) on a decoded dict
dict_get(event, key) ==
  LET x == IF key = "event_type" THEN event.event_type ELSE event.payload
  IN IF x = Absent THEN PyNone ELSE x

(***************************************************************************)
(* The handler registry: self.handlers, a dict from event type to handler. *)
(***************************************************************************)
\* the callables the callers register
Handlers == {"h1", "h2"}
\* the keys the callers register them under
RegKeys == {"ACCOUNT_CREATED", "USER_ADDED", "", PyNone}
\* the (key, handler) pairs the callers register: h1 under every key, and h2
\* as a second handler for ACCOUNT_CREATED
Registrations ==
  { <<k, "h1">> : k \in RegKeys } \cup { <<"ACCOUNT_CREATED", "h2">> }
\* the dicts register_event is called with: one or two of these pairs
Mappings ==
  { m \in UNION { [D -> Handlers] : D \in SUBSET RegKeys } :
      /\ Cardinality(DOMAIN m) \in {1, 2}
      /\ \A k \in DOMAIN m : <<k, m[k]>> \in Registrations }

\* a registry whose lookup falls back to a default handler for an unknown key
handlers_get_default(reg, key) == IF key \in DOMAIN reg THEN reg[key] ELSE "h1"
\* self.handlers.get(key): the handler, or None
handlers_get(reg, key) == IF key \in DOMAIN reg THEN reg[key] ELSE PyNone
\* a registry that keeps the first handler registered under a key
handlers_update_keep_first(reg, m) ==
  [k \in DOMAIN reg \cup DOMAIN m |-> IF k \in DOMAIN reg THEN reg[k] ELSE m[k]]
\* a registration that removes the pair when it is registered already
handlers_set_toggle(reg, key, h) ==
  IF key \in DOMAIN reg /\ reg[key] = h
  THEN [k \in DOMAIN reg \ {key} |-> reg[k]]
  ELSE [k \in DOMAIN reg \cup {key} |-> IF k = key THEN h ELSE reg[k]]
\* self.handlers[event_type] = handler_func
handlers_set(reg, key, h) ==
  [k \in DOMAIN reg \cup {key} |-> IF k = key THEN h ELSE reg[k]]
\* self.handlers.update(event_handlers)
handlers_update(reg, m) ==
  [k \in DOMAIN reg \cup DOMAIN m |-> IF k \in DOMAIN m THEN m[k] ELSE reg[k]]

(***************************************************************************)
(* Dispatch: what one call of consume_message / _handle_event does with    *)
(* raw under registry reg, up to the call of the handler.                  *)
(*   kind "discard": returns without calling a handler (why says which     *)
(*                   branch); "raise": exc leaves the method;              *)
(*   kind "invoke":  calls handler h with (payload, event).                *)
(***************************************************************************)
Plan(kind, why, h, payload, event) ==
  [kind |-> kind, why |-> why, h |-> h, payload |-> payload, event |-> event]
Discard(why) == Plan("discard", why, PyNone, PyNone, NoValue)
Raise(exc) == Plan("raise", exc, PyNone, PyNone, NoValue)

\* a call that reads the payload under a key the envelope does not have
handler_call_wrong_key(h, event) == Plan("invoke", "", h, PyNone, event)
\* handler(event.get("payload"), event)
handler_call(h, event) == Plan("invoke", "", h, dict_get(event, "payload"), event)

\* ionix_consumer.IonixConsumer.consume_message
consume_message_plan(reg, raw) ==
  LET dec == json_loads(raw) IN
  IF ~dec.ok THEN Discard("JSONDecodeError")
  ELSE IF dec.value.t # "dict" THEN Raise("AttributeError")
  ELSE LET event == dec.value
           event_type == dict_get(event, "event_type")
       IN IF ~Truthy(event_type) THEN Discard("missing event_type")
          ELSE LET handler == handlers_get(reg, event_type)
               IN IF handler # PyNone THEN handler_call(handler, event)
                  ELSE Discard("no handler")

\* fsd.IonixConsumer._handle_event
handle_event_plan(reg, raw) ==
  LET dec == json_loads(raw) IN
  IF ~dec.ok THEN Discard("JSONDecodeError")
  ELSE IF dec.value.t # "dict" THEN Raise("AttributeError")
  ELSE LET event == dec.value
           event_type == dict_get(event, "event_type")
           handler == handlers_get(reg, event_type)
       IN IF handler # PyNone THEN handler_call(handler, event)
          ELSE Discard("no handler")

\* a dispatch without the try/except: the handler's exception leaves it
handler_except_reraise(exc) == [status |-> "raised", exc |-> exc]
\* what the try/except around the handler call does with an Exception the
\* handler raised: it is logged and the method returns
handler_except(exc) == [status |-> "returned", exc |-> ""]

(***************************************************************************)
(* SimulatedQueue.poll: the outcome for the random number drawn.           *)
(***************************************************************************)
Outcome(how, exc, value) == [how |-> how, exc |-> exc, value |-> value]
NoOutcome == Outcome("none", "", NoRaw)
Message(et) == Outcome("returned", "", json_dumps(Value("dict", et, PayloadOf(et))))

\* random.randint(0, 5) in ionix_consumer/SimulatedQueue.py
RandomIonix == 0..5
\* random.randint(0, 99) % 5 in fsd.py
\* a draw that never reaches the last branch of poll
RandomFsd_mod_four == { n % 4 : n \in 0..99 }
RandomFsd == { n % 5 : n \in 0..99 }

\* ionix_consumer.SimulatedQueue.poll
poll_ionix(random_number) ==
  CASE random_number = 0 -> Outcome("raised", "PollingException", NoRaw)
    [] random_number = 1 -> Message("ACCOUNT_CREATED")
    [] random_number = 2 -> Outcome("raised", "RuntimeError", NoRaw)
    [] random_number = 3 -> Message("USER_ADDED")
    [] random_number = 4 -> Message("USER_DELETED")
    [] OTHER             -> Outcome("returned", "", NoRaw)

\* a queue that signals its fatal failure with another exception class
poll_fsd_other_error(random_number) ==
  CASE random_number = 0 -> Outcome("raised", "PollingException", NoRaw)
    [] random_number = 1 -> Message("ACCOUNT_CREATED")
    [] random_number = 2 -> Outcome("raised", "ValueError", NoRaw)
    [] random_number = 3 -> Message("USER_ADDED")
    [] OTHER             -> Outcome("returned", "", NoRaw)
\* fsd.SimulatedQueue.poll
poll_fsd(random_number) ==
  CASE random_number = 0 -> Outcome("raised", "PollingException", NoRaw)
    [] random_number = 1 -> Message("ACCOUNT_CREATED")
    [] random_number = 2 -> Outcome("raised", "RuntimeError", NoRaw)
    [] random_number = 3 -> Message("USER_ADDED")
    [] OTHER             -> Outcome("returned", "", NoRaw)

(***************************************************************************)
(* Event streams bound to the fsd consumer (self.event_stream).            *)
(*   None:       no stream bound;                                          *)
(*   generator:  yields its elements lazily; pos counts the elements it    *)
(*               has yielded, done says it has finished (by StopIteration  *)
(*               or by raising) and will yield nothing more;               *)
(*   list:       a re-iterable collection of raw messages.                 *)
(***************************************************************************)
Stream(kind, items, pos, done) ==
  [kind |-> kind, items |-> items, pos |-> pos, done |-> done]
NoStream == Stream("None", <<>>, 0, FALSE)
NewGenerator == Stream("generator", <<>>, 0, FALSE)
\* the raw messages the bound lists hold
ListRaws == {json_dumps(Value("dict", "ACCOUNT_CREATED", PayloadOf("ACCOUNT_CREATED")))}
\* the raw messages the bound generators yield
GeneratorRaws ==
  { json_dumps(Value("dict", et, PayloadOf(et))) : et \in {"ACCOUNT_CREATED", "USER_ADDED"} }
    \cup {RawGarbled, json_dumps(Value("list", Absent, Absent))}
Lists == { Stream("list", items, 0, FALSE) :
             items \in UNION { [1..n -> ListRaws] : n \in 0..MaxStream } }
Streams == {NoStream, NewGenerator} \cup Lists

\* bool(self.event_stream): None and an empty list are false, a generator
\* object is always true
TruthyStream(st) ==
  \/ st.kind = "generator"
  \/ st.kind = "list" /\ Len(st.items) > 0

\* a loop that walks the list from its end
list_index_reversed(items, n) == Len(items) - n + 1
\* the index of the element a for loop over a list takes at its n-th iteration
list_index(items, n) == n

VARIABLES
  prog,          \* "ionix": ionix_consumer package; "fsd": fsd.py
  handlers,      \* self.handlers of the consumer
  event_stream,  \* self.event_stream of the consumer (fsd)
  pc,            \* "idle", "loop" (in consume_event, between iterations), "handler"
  call,          \* the API call in progress or last completed, and what it did
  disp,          \* the dispatch in progress or last completed in that call
  hlog,          \* the handler calls of that call, by arrival index of the
                 \* message: "start", then "returned" or "raised"
  polled,        \* the outcome of the last SimulatedQueue.poll
  failed,        \* a handler has raised earlier in this run
  wait,          \* the timeout and the simulated wait of the last poll
  passed,        \* per element of the bound stream: how often it has been
                 \* passed to _handle_event since the stream was bound
  regobs,        \* the last API call, if a registration: its argument and
                 \* the registry before it
  latest,        \* per key: the handler of the most recent registration call
                 \* that named the key
  driver,        \* test.py: consumer2 and the position in the poll loop
  threads        \* two threads on one consumer: their positions and locals

vars == <<prog, handlers, event_stream, pc, call, disp, hlog, polled, failed,
          wait, passed, regobs, latest, driver, threads>>

\* consume_event(..., timeout: int = 1000), queue.poll(timeout=1000)
DefaultTimeout == 1000
\* random.randint(0, 2000): the largest simulated wait, in milliseconds
MaxSleepMs == 2000
\* the draws of random.randint(0, 2000) followed: its two ends
SleepDraws == {0, MaxSleepMs}
\* time.sleep(random.randint(0, 2000) / 1000): the wait in milliseconds of a
\* poll called with timeout, for the number drawn
poll_sleep_ms(timeout, drawn) == drawn
Wait(timeout, slept) == [timeout |-> timeout, slept |-> slept]
NoWait == Wait(0, 0)

\* one more pass of element i
Pass(counts, i) ==
  [counts EXCEPT ![i] = IF @ < MaxPasses THEN @ + 1 ELSE @]

\* a dispatch that consumes the handler it calls
handlers_after_dispatch_pop(reg, plan) ==
  IF plan.kind = "invoke"
  THEN [k \in { x \in DOMAIN reg : reg[x] # plan.h } |-> reg[k]]
  ELSE reg
\* self.handlers after one lookup of a dispatch: get() leaves the dict as it is
handlers_after_dispatch(reg, plan) == reg

RegObs(arg, before) == [arg |-> arg, before |-> before]

\* op: the method; mode: the branch consume_event took; raw, poll_times: its
\* arguments; how/v: "running", or how it ended ("returned" v, "raised" v);
\* nPoll, nTaken, nDispatch: polls of the queue, elements taken from the
\* stream and dispatch calls it made; nMessage: polls that returned a message
Call(op, mode, raw, poll_times) ==
  [op |-> op, mode |-> mode, raw |-> raw,
   poll_times |-> IF mode = "poll" THEN poll_times ELSE 0,
   how |-> "running", v |-> "", nPoll |-> 0, nTaken |-> 0, nDispatch |-> 0,
   nMessage |-> 0]
NoCall == [Call("none", "none", NoRaw, 0) EXCEPT !.how = "none"]
Ended(c, how, v) == [c EXCEPT !.how = how, !.v = v]

\* raw: the message dispatched; reg: self.handlers when the dispatch began;
\* status: "running" (in the handler), "returned", "raised" (exc);
\* plan: the branch taken; calls: the handler calls made, each (h, payload,
\* event); idx: the arrival index of the message in its call
Dispatch(raw, reg, status, exc, plan, calls, idx) ==
  [raw |-> raw, reg |-> reg, status |-> status, exc |-> exc, plan |-> plan,
   calls |-> calls, idx |-> idx]
EmptyReg == [k \in {} |-> "h1"]
NoDispatch == Dispatch(NoRaw, EmptyReg, "none", "", Discard(""), <<>>, 0)
NoRegObs == RegObs(EmptyReg, EmptyReg)

\* test.py. handlers2, disp2: self.handlers and the last dispatch of
\* consumer2 (handlers and disp are those of consumer1); latest2: per key the
\* handler registered last on consumer2; iter: iterations of the poll loop
\* begun; log: the handler calls of the current iteration, each (ev, c) with
\* c the consumer whose handler it is
Driver(handlers2, latest2, disp2, iter, log) ==
  [handlers2 |-> handlers2, latest2 |-> latest2, disp2 |-> disp2,
   iter |-> iter, log |-> log]
NoDriver == Driver(EmptyReg, EmptyReg, NoDispatch, 0, <<>>)

\* Two threads on one consumer. apc, araw, ah: where the thread in
\* consume_message is, its message and the handler it has looked up;
\* bpc, barg: where the thread in register_handler is and its (key, handler);
\* returned: per key the handler of the last register_handler call that has
\* returned; nA, nB: calls begun by either thread; calls: the handler calls
\* of the current consume_message; late: when the handler entered last was
\* entered, a register_handler call that put another handler under its key
\* had returned
Threads(apc, araw, ah, bpc, barg, returned, nA, nB, calls, late) ==
  [apc |-> apc, araw |-> araw, ah |-> ah, bpc |-> bpc, barg |-> barg,
   returned |-> returned, nA |-> nA, nB |-> nB, calls |-> calls, late |-> late]
NoThreads ==
  Threads("idle", NoRaw, PyNone, "idle", <<"", "">>, EmptyReg, 0, 0, <<>>, FALSE)
\* the most recent registration per key, once a call has registered mapping m
latest_after(last, m) ==
  [k \in DOMAIN last \cup DOMAIN m |-> IF k \in DOMAIN m THEN m[k] ELSE last[k]]

Init ==
  /\ prog \in {"ionix", "fsd"}
  /\ handlers = EmptyReg
  /\ event_stream = NoStream
  /\ pc = "idle"
  /\ call = NoCall
  /\ disp = NoDispatch
  /\ hlog = <<>>
  /\ polled = NoOutcome
  /\ failed = FALSE
  /\ wait = NoWait
  /\ passed = <<>>
  /\ regobs = NoRegObs
  /\ latest = EmptyReg
  /\ driver = NoDriver
  /\ threads = NoThreads

(***************************************************************************)
(* Control after a dispatch, and the start of a dispatch.                  *)
(***************************************************************************)
\* Where the thread goes once a dispatch of call c has ended with status:
\* an exception leaves the API call; consume_message and direct mode return;
\* the poll loop returns after its last iteration; otherwise the loop goes on.
Settle(c, status, exc) ==
  IF status = "raised" THEN
    /\ pc' = "idle"
    /\ call' = Ended(c, "raised", exc)
  ELSE IF c.op = "consume_message" THEN
    /\ pc' = "idle"
    /\ call' = Ended(c, "returned", PyNone)
  ELSE IF c.mode = "direct" \/ (c.mode = "poll" /\ c.nPoll = c.poll_times) THEN
    /\ pc' = "idle"
    /\ call' = Ended(c, "returned", "self")
  ELSE
    /\ pc' = "loop"
    /\ call' = c

HEvent(ev, idx) == [ev |-> ev, idx |-> idx]
HCall(plan) == [h |-> plan.h, payload |-> plan.payload, event |-> plan.event]

\* One call of consume_message / _handle_event on raw, the idx-th message of
\* call c, up to the point where the handler is entered; log holds the
\* handler calls call c has made so far.
Begin(c, raw, idx, plan, log) ==
  IF plan.kind = "invoke" THEN
    /\ disp' = Dispatch(raw, handlers, "running", "", plan, <<HCall(plan)>>, idx)
    /\ hlog' = Append(log, HEvent("start", idx))
    /\ pc' = "handler"
    /\ call' = c
    /\ handlers' = handlers_after_dispatch(handlers, plan)
  ELSE IF plan.kind = "raise" THEN
    /\ disp' = Dispatch(raw, handlers, "raised", plan.why, plan, <<>>, idx)
    /\ hlog' = log
    /\ handlers' = handlers
    /\ Settle(c, "raised", plan.why)
  ELSE
    /\ disp' = Dispatch(raw, handlers, "returned", "", plan, <<>>, idx)
    /\ hlog' = log
    /\ handlers' = handlers_after_dispatch(handlers, plan)
    /\ Settle(c, "returned", "")

(***************************************************************************)
(* ionix_consumer: IonixConsumer and SimulatedQueue.                       *)
(***************************************************************************)
register_handler(event_type, handler_func) ==
  /\ prog = "ionix" /\ pc = "idle"
  /\ handlers' = handlers_set(handlers, event_type, handler_func)
  /\ call' = Ended(Call("register_handler", "none", NoRaw, 0), "returned", "self")
  /\ disp' = NoDispatch
  /\ hlog' = <<>>
  /\ polled' = NoOutcome
  /\ wait' = NoWait
  /\ LET m == [k \in {event_type} |-> handler_func] IN
       /\ regobs' = RegObs(m, handlers)
       /\ latest' = latest_after(latest, m)
  /\ UNCHANGED <<prog, driver, threads, event_stream, pc, failed, passed>>

consume_message(raw_message) ==
  /\ prog = "ionix" /\ pc = "idle"
  /\ Begin([Call("consume_message", "none", raw_message, 0) EXCEPT !.nDispatch = 1],
           raw_message, 1, consume_message_plan(handlers, raw_message), <<>>)
  /\ polled' = NoOutcome
  /\ wait' = NoWait
  /\ regobs' = NoRegObs
  /\ UNCHANGED <<prog, driver, threads, event_stream, failed, passed, latest>>

\* queue.poll(timeout) called on its own, as the loop of test.py does
poll(timeout, drawn, random_number) ==
  /\ prog = "ionix" /\ pc = "idle"
  /\ wait' = Wait(timeout, poll_sleep_ms(timeout, drawn))
  /\ regobs' = NoRegObs
  /\ LET out == poll_ionix(random_number) IN
       /\ polled' = out
       /\ call' = Ended(Call("poll", "none", NoRaw, 0), out.how,
                        IF out.how = "raised" THEN out.exc
                        ELSE IF out.value = NoRaw THEN PyNone ELSE "message")
  /\ disp' = NoDispatch
  /\ hlog' = <<>>
  /\ UNCHANGED <<prog, driver, threads, handlers, event_stream, pc, failed, passed, latest>>

(***************************************************************************)
(* fsd.py: IonixConsumer.                                                  *)
(***************************************************************************)
register_event(event_handlers) ==
  /\ prog = "fsd" /\ pc = "idle"
  /\ handlers' = handlers_update(handlers, event_handlers)
  /\ call' = Ended(Call("register_event", "none", NoRaw, 0), "returned", "self")
  /\ disp' = NoDispatch
  /\ hlog' = <<>>
  /\ polled' = NoOutcome
  /\ wait' = NoWait
  /\ regobs' = RegObs(event_handlers, handlers)
  /\ latest' = latest_after(latest, event_handlers)
  /\ UNCHANGED <<prog, driver, threads, event_stream, pc, failed, passed>>

set_event_stream(stream) ==
  /\ prog = "fsd" /\ pc = "idle"
  /\ event_stream' = stream
  /\ call' = Ended(Call("set_event_stream", "none", NoRaw, 0), "returned", "self")
  /\ disp' = NoDispatch
  /\ hlog' = <<>>
  /\ polled' = NoOutcome
  /\ wait' = NoWait
  /\ regobs' = NoRegObs
  /\ passed' = [i \in 1..Len(stream.items) |-> 0]
  /\ UNCHANGED <<prog, driver, threads, handlers, pc, failed, latest>>

\* the branch consume_event takes
consume_event_mode(raw_event, stream) ==
  IF TruthyRaw(raw_event) THEN "direct"
  ELSE IF TruthyStream(stream) THEN "stream"
  ELSE "poll"

consume_event(raw_event, poll_times) ==
  /\ prog = "fsd" /\ pc = "idle"
  /\ LET mode == consume_event_mode(raw_event, event_stream)
         c == Call("consume_event", mode, raw_event, poll_times)
     IN IF mode = "direct" THEN
          Begin([c EXCEPT !.nDispatch = 1], raw_event, 1,
                handle_event_plan(handlers, raw_event), <<>>)
        ELSE
          /\ disp' = NoDispatch
          /\ hlog' = <<>>
          /\ handlers' = handlers
          /\ IF mode = "poll" /\ poll_times = 0
             THEN pc' = "idle" /\ call' = Ended(c, "returned", "self")
             ELSE pc' = "loop" /\ call' = c
  /\ polled' = NoOutcome
  /\ wait' = NoWait
  /\ regobs' = NoRegObs
  /\ UNCHANGED <<prog, driver, threads, event_stream, failed, passed, latest>>

\* for event in self.event_stream: one step of the iteration over a list
StreamNextList ==
  /\ pc = "loop" /\ call.mode = "stream" /\ event_stream.kind = "list"
  /\ LET n == call.nTaken + 1 IN
       IF n <= Len(event_stream.items) THEN
         LET i == list_index(event_stream.items, n) IN
         /\ Begin([call EXCEPT !.nTaken = n, !.nDispatch = @ + 1],
                  event_stream.items[i], i,
                  handle_event_plan(handlers, event_stream.items[i]), hlog)
         /\ passed' = Pass(passed, i)
       ELSE
         /\ pc' = "idle"
         /\ call' = Ended(call, "returned", "self")
         /\ UNCHANGED <<handlers, disp, hlog, passed>>
  /\ UNCHANGED <<prog, driver, threads, event_stream, polled, failed, wait, regobs, latest>>

\* for event in self.event_stream: the generator yields its next element
StreamNextYield(raw) ==
  /\ pc = "loop" /\ call.mode = "stream" /\ event_stream.kind = "generator"
  /\ ~event_stream.done /\ event_stream.pos < MaxStream
  /\ event_stream' = [event_stream EXCEPT !.pos = @ + 1]
  /\ Begin([call EXCEPT !.nTaken = @ + 1, !.nDispatch = @ + 1],
           raw, event_stream.pos + 1, handle_event_plan(handlers, raw), hlog)
  /\ passed' = Append(passed, 1)
  /\ UNCHANGED <<prog, driver, threads, polled, failed, wait, regobs, latest>>

\* ... or is exhausted (StopIteration ends the for loop)
StreamNextStop ==
  /\ pc = "loop" /\ call.mode = "stream" /\ event_stream.kind = "generator"
  /\ event_stream' = [event_stream EXCEPT !.done = TRUE]
  /\ pc' = "idle"
  /\ call' = Ended(call, "returned", "self")
  /\ UNCHANGED <<prog, driver, threads, handlers, disp, hlog, polled, failed, wait, passed,
                 regobs, latest>>

\* ... or raises: nothing around the for loop catches it
StreamNextRaise ==
  /\ pc = "loop" /\ call.mode = "stream" /\ event_stream.kind = "generator"
  /\ ~event_stream.done
  /\ event_stream' = [event_stream EXCEPT !.done = TRUE]
  /\ pc' = "idle"
  /\ call' = Ended(call, "raised", "StreamError")
  /\ UNCHANGED <<prog, driver, threads, handlers, disp, hlog, polled, failed, wait, passed,
                 regobs, latest>>

\* a poll loop that handles the transient failure only
poll_except_transient_only(exc) == exc = "PollingException"

\* a poll loop that dispatches whatever poll returns
poll_result_any(result) == TRUE
\* if result: in the body of the poll loop
poll_result_truthy(result) == TruthyRaw(result)

\* except PollingException / except RuntimeError around the body of the poll loop
poll_except(exc) == exc \in {"PollingException", "RuntimeError"}

\* one iteration of: for _ in range(poll_times)
PollNext(drawn, random_number) ==
  /\ pc = "loop" /\ call.mode = "poll" /\ call.nPoll < call.poll_times
  /\ wait' = Wait(DefaultTimeout, poll_sleep_ms(DefaultTimeout, drawn))
  /\ LET out == poll_fsd(random_number)
         c == [call EXCEPT !.nPoll = @ + 1,
                           !.nMessage = IF out.how = "returned" /\ out.value # NoRaw
                                        THEN @ + 1 ELSE @]
     IN /\ polled' = out
        /\ IF out.how = "raised" THEN
             /\ UNCHANGED <<handlers, disp, hlog>>
             /\ IF poll_except(out.exc) THEN Settle(c, "returned", "")
                ELSE Settle(c, "raised", out.exc)
           ELSE IF poll_result_truthy(out.value) THEN
             Begin([c EXCEPT !.nDispatch = @ + 1], out.value, c.nPoll,
                   handle_event_plan(handlers, out.value), hlog)
           ELSE
             /\ UNCHANGED <<handlers, disp, hlog>>
             /\ Settle(c, "returned", "")
  /\ UNCHANGED <<prog, driver, threads, event_stream, failed, passed, regobs, latest>>

(***************************************************************************)
(* The handler, entered by a dispatch of either class, ends.               *)
(***************************************************************************)
HandlerReturn ==
  /\ pc = "handler"
  /\ disp' = [disp EXCEPT !.status = "returned"]
  /\ hlog' = Append(hlog, HEvent("returned", disp.idx))
  /\ Settle(call, "returned", "")
  /\ UNCHANGED <<prog, driver, threads, handlers, event_stream, polled, failed, wait, passed,
                 regobs, latest>>

HandlerRaise ==
  /\ pc = "handler"
  /\ LET r == handler_except("Exception") IN
       /\ disp' = [disp EXCEPT !.status = r.status, !.exc = r.exc]
       /\ Settle(call, r.status, r.exc)
  /\ hlog' = Append(hlog, HEvent("raised", disp.idx))
  /\ failed' = TRUE
  /\ UNCHANGED <<prog, driver, threads, handlers, event_stream, polled, wait, passed, regobs,
                 latest>>

Next ==
  \/ \E r \in Registrations : register_handler(r[1], r[2])
  \/ \E raw \in Raws : consume_message(raw)
  \/ \E d \in SleepDraws, rn \in RandomIonix : poll(DefaultTimeout, d, rn)
  \/ \E m \in Mappings : register_event(m)
  \/ \E st \in Streams : set_event_stream(st)
  \/ \E raw \in Raws \cup {NoRaw}, n \in 0..MaxPollTimes : consume_event(raw, n)
  \/ StreamNextList
  \/ \E raw \in GeneratorRaws : StreamNextYield(raw)
  \/ StreamNextStop
  \/ StreamNextRaise
  \/ \E d \in SleepDraws, rn \in RandomFsd : PollNext(d, rn)
  \/ HandlerReturn
  \/ HandlerRaise

Spec == Init /\ [][Next]_vars

(***************************************************************************)
(* test.py: two consumers, each with the handlers of its service, and the  *)
(* loop that polls the queue and hands each message to consumer1, then to  *)
(* consumer2. pc: "t_setup" (registering), "t_poll" (top of the loop),     *)
(* "t_c1"/"t_c2" (about to call consumerN.consume_message), "t_h1"/"t_h2"  *)
(* (in a handler of consumerN), "t_end", "t_crash" (an exception left the  *)
(* loop).                                                                  *)
(***************************************************************************)
Consumers == {1, 2}
\* the handlers of ServiceA (consumer1) and of ServiceB (consumer2)
service_handler(c) == IF c = 1 THEN "h1" ELSE "h2"

\* consumers that share one registry
registry_of_shared(c, reg1, reg2) == reg1
\* self.handlers of consumer c: __init__ gives every instance its own dict
registry_of(c, reg1, reg2) == IF c = 1 THEN reg1 ELSE reg2

\* except PollingException / except RuntimeError around the body of the loop
driver_except(exc) == exc \in {"PollingException", "RuntimeError"}

PcConsume(c) == IF c = 1 THEN "t_c1" ELSE "t_c2"
PcHandler(c) == IF c = 1 THEN "t_h1" ELSE "t_h2"
\* where the loop goes after iteration iter
PcNext(iter) == IF iter = MaxDriverPolls THEN "t_end" ELSE "t_poll"
\* where the loop goes after consumer c has consumed
PcAfter(c, iter) == IF c = 1 THEN PcConsume(2) ELSE PcNext(iter)

InitTest ==
  /\ prog = "test"
  /\ handlers = EmptyReg
  /\ event_stream = NoStream
  /\ pc = "t_setup"
  /\ call = NoCall
  /\ disp = NoDispatch
  /\ hlog = <<>>
  /\ polled = NoOutcome
  /\ failed = FALSE
  /\ wait = NoWait
  /\ passed = <<>>
  /\ regobs = NoRegObs
  /\ latest = EmptyReg
  /\ driver = NoDriver
  /\ threads = NoThreads

\* consumerN.register_handler(event_type, handler of its service)
driver_register_handler(c, event_type) ==
  /\ prog = "test" /\ pc = "t_setup"
  /\ LET m == [k \in {event_type} |-> service_handler(c)]
         new == handlers_set(registry_of(c, handlers, driver.handlers2),
                             event_type, service_handler(c))
     IN IF c = 1 THEN
          /\ handlers' = new
          /\ latest' = latest_after(latest, m)
          /\ driver' = driver
        ELSE
          /\ driver' = [driver EXCEPT !.handlers2 = new,
                                      !.latest2 = latest_after(@, m)]
          /\ UNCHANGED <<handlers, latest>>
  /\ UNCHANGED <<prog, event_stream, pc, call, disp, hlog, polled, failed, wait,
                 passed, regobs, threads>>

\* result = queue.poll(timeout=1000), and the branch on it
driver_poll(drawn, random_number) ==
  /\ prog = "test" /\ pc \in {"t_setup", "t_poll"}
  /\ driver.iter < MaxDriverPolls
  /\ LET out == poll_ionix(random_number)
         iter == driver.iter + 1
     IN /\ polled' = out
        /\ driver' = [driver EXCEPT !.iter = iter, !.log = <<>>,
                                    !.disp2 = NoDispatch]
        /\ pc' = IF out.how = "raised"
                 THEN IF driver_except(out.exc) THEN PcNext(iter) ELSE "t_crash"
                 ELSE IF TruthyRaw(out.value) THEN PcConsume(1)
                 ELSE PcNext(iter)
  /\ wait' = Wait(DefaultTimeout, poll_sleep_ms(DefaultTimeout, drawn))
  /\ disp' = NoDispatch
  /\ UNCHANGED <<prog, handlers, event_stream, call, hlog, failed, passed,
                 regobs, latest, threads>>

\* consumerN.consume_message(result), up to the point where the handler is
\* entered
driver_consume_message(c) ==
  /\ prog = "test" /\ pc = PcConsume(c)
  /\ LET reg == registry_of(c, handlers, driver.handlers2)
         raw == polled.value
         plan == consume_message_plan(reg, raw)
         d == IF plan.kind = "invoke"
              THEN Dispatch(raw, reg, "running", "", plan, <<HCall(plan)>>, driver.iter)
              ELSE IF plan.kind = "raise"
              THEN Dispatch(raw, reg, "raised", plan.why, plan, <<>>, driver.iter)
              ELSE Dispatch(raw, reg, "returned", "", plan, <<>>, driver.iter)
         log == IF plan.kind = "invoke"
                THEN Append(driver.log, HEvent("start", c)) ELSE driver.log
         after == handlers_after_dispatch(reg, plan)
     IN /\ pc' = IF plan.kind = "invoke" THEN PcHandler(c)
                 ELSE IF plan.kind = "raise" THEN "t_crash"
                 ELSE PcAfter(c, driver.iter)
        /\ IF c = 1 THEN
             /\ disp' = d
             /\ handlers' = after
             /\ driver' = [driver EXCEPT !.log = log]
           ELSE
             /\ driver' = [driver EXCEPT !.log = log, !.disp2 = d,
                                         !.handlers2 = after]
             /\ UNCHANGED <<handlers, disp>>
  /\ UNCHANGED <<prog, event_stream, call, hlog, polled, failed, wait, passed,
                 regobs, latest, threads>>

\* the handler of consumer c returns, or raises into except Exception
driver_handler_end(c, ev) ==
  /\ prog = "test" /\ pc = PcHandler(c)
  /\ LET r == IF ev = "raised" THEN handler_except("Exception")
              ELSE [status |-> "returned", exc |-> ""]
         log == Append(driver.log, HEvent(ev, c))
     IN /\ pc' = IF r.status = "raised" THEN "t_crash"
                 ELSE PcAfter(c, driver.iter)
        /\ IF c = 1 THEN
             /\ disp' = [disp EXCEPT !.status = r.status, !.exc = r.exc]
             /\ driver' = [driver EXCEPT !.log = log]
           ELSE
             /\ driver' = [driver EXCEPT !.log = log, !.disp2.status = r.status,
                                         !.disp2.exc = r.exc]
             /\ disp' = disp
  /\ UNCHANGED <<prog, handlers, event_stream, call, hlog, polled, failed, wait,
                 passed, regobs, latest, threads>>

driver_handler_return(c) == driver_handler_end(c, "returned")
driver_handler_raise(c) == driver_handler_end(c, "raised")

NextTest ==
  \/ \E c \in Consumers, et \in EventTypes : driver_register_handler(c, et)
  \/ \E d \in SleepDraws, rn \in RandomIonix : driver_poll(d, rn)
  \/ \E c \in Consumers : driver_consume_message(c)
  \/ \E c \in Consumers : driver_handler_return(c)
  \/ \E c \in Consumers : driver_handler_raise(c)

SpecTest == InitTest /\ [][NextTest]_vars

(***************************************************************************)
(* One IonixConsumer used by two threads: thread A calls consume_message,  *)
(* thread B calls register_handler. The class holds no lock, so the        *)
(* interpreter may switch threads between any two statements: between the  *)
(* lookup self.handlers.get(event_type) and the call of the handler found, *)
(* and between the store self.handlers[event_type] = ... and return self.  *)
(* The lookup and the store themselves are atomic dict operations.         *)
(***************************************************************************)
\* the messages thread A consumes and the pairs thread B registers
ThreadRaws ==
  { json_dumps(Value("dict", et, PayloadOf(et))) : et \in {"ACCOUNT_CREATED", "USER_ADDED"} }
ThreadRegistrations ==
  { <<"ACCOUNT_CREATED", "h2">>, <<"ACCOUNT_CREATED", "h1">>, <<"USER_ADDED", "h1">> }
\* the registry before the threads start: H1 for ACCOUNT_CREATED
SharedReg == [k \in {"ACCOUNT_CREATED"} |-> "h1"]

InitShared ==
  /\ prog = "shared"
  /\ handlers = SharedReg
  /\ event_stream = NoStream
  /\ pc = "threads"
  /\ call = NoCall
  /\ disp = NoDispatch
  /\ hlog = <<>>
  /\ polled = NoOutcome
  /\ failed = FALSE
  /\ wait = NoWait
  /\ passed = <<>>
  /\ regobs = NoRegObs
  /\ latest = SharedReg
  /\ driver = NoDriver
  /\ threads = [NoThreads EXCEPT !.returned = SharedReg]

\* thread A, consume_message up to handler = self.handlers.get(event_type)
thread_consume_lookup(raw_message) ==
  /\ prog = "shared" /\ threads.apc = "idle" /\ threads.nA < MaxThreadCalls
  /\ LET plan == consume_message_plan(handlers, raw_message) IN
       /\ threads' = [threads EXCEPT
            !.apc = IF plan.kind = "invoke" THEN "looked" ELSE "idle",
            !.araw = raw_message,
            !.ah = IF plan.kind = "invoke" THEN plan.h ELSE PyNone,
            !.nA = @ + 1, !.calls = <<>>, !.late = FALSE]
       /\ handlers' = handlers_after_dispatch(handlers, plan)
  /\ UNCHANGED <<prog, event_stream, pc, call, disp, hlog, polled, failed, wait,
                 passed, regobs, latest, driver>>

\* thread A, if handler: handler(event.get("payload"), event) is entered
thread_consume_call ==
  /\ prog = "shared" /\ threads.apc = "looked"
  /\ LET key == threads.araw.val.event_type IN
       threads' = [threads EXCEPT
         !.apc = "handler",
         !.calls = Append(@, threads.ah),
         !.late = /\ key \in DOMAIN threads.returned
                  /\ threads.returned[key] = handlers[key]
                  /\ threads.returned[key] # threads.ah]
  /\ UNCHANGED <<prog, handlers, event_stream, pc, call, disp, hlog, polled,
                 failed, wait, passed, regobs, latest, driver>>

\* thread A, the handler returns or raises into except Exception, and
\* consume_message returns
thread_handler_end ==
  /\ prog = "shared" /\ threads.apc = "handler"
  /\ threads' = [threads EXCEPT !.apc = "idle"]
  /\ UNCHANGED <<prog, handlers, event_stream, pc, call, disp, hlog, polled,
                 failed, wait, passed, regobs, latest, driver>>

\* thread B, register_handler: self.handlers[event_type] = handler_func
thread_register_store(event_type, handler_func) ==
  /\ prog = "shared" /\ threads.bpc = "idle" /\ threads.nB < MaxThreadCalls
  /\ handlers' = handlers_set(handlers, event_type, handler_func)
  /\ latest' = latest_after(latest, [k \in {event_type} |-> handler_func])
  /\ threads' = [threads EXCEPT !.bpc = "stored",
                                !.barg = <<event_type, handler_func>>,
                                !.nB = @ + 1]
  /\ UNCHANGED <<prog, event_stream, pc, call, disp, hlog, polled, failed, wait,
                 passed, regobs, driver>>

\* thread B, register_handler: return self
thread_register_return ==
  /\ prog = "shared" /\ threads.bpc = "stored"
  /\ threads' = [threads EXCEPT
       !.bpc = "idle",
       !.returned = latest_after(@, [k \in {threads.barg[1]} |-> threads.barg[2]])]
  /\ UNCHANGED <<prog, handlers, event_stream, pc, call, disp, hlog, polled,
                 failed, wait, passed, regobs, latest, driver>>

NextShared ==
  \/ \E raw \in ThreadRaws : thread_consume_lookup(raw)
  \/ thread_consume_call
  \/ thread_handler_end
  \/ \E r \in ThreadRegistrations : thread_register_store(r[1], r[2])
  \/ thread_register_return

SpecShared == InitShared /\ [][NextShared]_vars

(***************************************************************************)
(* Properties.                                                             *)
(***************************************************************************)
\* a dispatch has been started (it is in the handler, or it has ended)
Dispatched == disp.status # "none"
\* raw is the serialization of an envelope with a non-empty event_type
WellFormed(raw) ==
  raw.text = "json" /\ raw.val.t = "dict" /\ raw.val.event_type \in EventTypes
\* raw is no serialized envelope: unparsable, or parses to something but a map
Malformed(raw) ==
  \/ raw.text \in {"empty", "garbled"}
  \/ raw.text = "json" /\ raw.val.t # "dict"
\* raw is an envelope whose event_type is missing or empty
Unroutable(raw) ==
  raw.text = "json" /\ raw.val.t = "dict" /\ raw.val.event_type \in {Absent, ""}
\* the one handler call the dispatch of envelope e under registry reg is to make
Expected(reg, e) ==
  [h |-> reg[e.event_type],
   payload |-> IF e.payload = Absent THEN PyNone ELSE e.payload,
   event |-> e]
Last(seq) == seq[Len(seq)]

\* C1: one dispatch (consume_message, _handle_event) of a well-formed envelope
\* whose event_type is registered calls exactly that handler, exactly once,
\* with (payload, envelope), calls no other handler and raises nothing.
C1_DispatchInvokesRegisteredHandlerOnce ==
  (Dispatched /\ WellFormed(disp.raw) /\ disp.raw.val.event_type \in DOMAIN disp.reg)
    => /\ disp.calls = <<Expected(disp.reg, disp.raw.val)>>
       /\ disp.status \in {"running", "returned"}
       /\ disp.exc = ""

\* C1 witness: a consume_message call has returned after calling the handler
\* of its envelope, with a payload, while another handler was registered too.
C1_Witness ==
  /\ call.op = "consume_message" /\ call.how = "returned"
  /\ WellFormed(disp.raw) /\ disp.raw.val.payload # Absent
  /\ disp.raw.val.event_type \in DOMAIN disp.reg
  /\ Cardinality(DOMAIN disp.reg) >= 2
  /\ Len(disp.calls) = 1

\* C2: a handler's failure stays inside the dispatch: the dispatch returns, no
\* API call ends with the handler's exception, and once a handler has failed
\* every later dispatch of a registered well-formed envelope still calls its
\* handler exactly once.
C2_HandlerIsolation ==
  /\ (hlog # <<>> /\ Last(hlog).ev = "raised" /\ disp.idx = Last(hlog).idx
        /\ disp.plan.kind = "invoke")
       => disp.status = "returned" /\ disp.exc = ""
  /\ ~(call.how = "raised" /\ call.v = "Exception")
  /\ disp.exc # "Exception"
  /\ (failed /\ disp.status = "returned" /\ WellFormed(disp.raw)
        /\ disp.raw.val.event_type \in DOMAIN disp.reg)
       => disp.calls = <<Expected(disp.reg, disp.raw.val)>>

\* C2 witness: in one consume_event call the handler of the first event raised
\* and the handler of a later event was then called once and returned.
C2_Witness ==
  /\ failed /\ call.op = "consume_event" /\ call.how = "returned"
  /\ Len(hlog) = 4 /\ hlog[2].ev = "raised" /\ hlog[4].ev = "returned"
  /\ disp.status = "returned" /\ Len(disp.calls) = 1 /\ disp.idx = hlog[4].idx

\* C3 (as claimed): a dispatch of a raw input that is no serialized envelope
\* calls no handler and raises nothing to its caller.
C3_MalformedDiscarded ==
  (Dispatched /\ Malformed(disp.raw))
    => disp.calls = <<>> /\ disp.status = "returned"

\* C4 (as claimed): an envelope whose event_type is missing or empty is never
\* dispatched to a handler, whatever the registry holds, in both classes.
C4_UnroutableNeverDispatched ==
  (Dispatched /\ Unroutable(disp.raw)) => disp.calls = <<>>

\* C5: a dispatch of a well-formed envelope whose event_type has no entry in
\* the registry calls no handler and raises nothing.
C5_NoHandlerNoInvocation ==
  (Dispatched /\ WellFormed(disp.raw) /\ disp.raw.val.event_type \notin DOMAIN disp.reg)
    => disp.calls = <<>> /\ disp.status = "returned" /\ disp.exc = ""

\* C5 witness: such a dispatch has returned while handlers for other keys
\* were registered.
C5_Witness ==
  /\ disp.status = "returned" /\ call.how = "returned"
  /\ WellFormed(disp.raw) /\ disp.raw.val.event_type \notin DOMAIN disp.reg
  /\ Cardinality(DOMAIN disp.reg) >= 2
  /\ disp.calls = <<>>

\* C6 (as claimed): every consume_event call ends by returning the consumer
\* itself; no failure leaves consume_event.
C6_ConsumeEventAlwaysReturnsSelf ==
  (call.op = "consume_event" /\ call.how # "running")
    => call.how = "returned" /\ call.v = "self"

\* C7 (as claimed): poll never raises: every outcome is a returned value.
C7_PollNeverRaises == polled.how \in {"none", "returned"}

\* C7 (amended): every poll ends in one of four outcomes: it returns a
\* serialized envelope of a known event type (Message), returns None (Empty),
\* raises PollingException (transient) or raises RuntimeError (fatal); the two
\* failures reach the caller of poll as exceptions.
C7_PollOutcomes ==
  /\ polled.how \in {"none", "returned", "raised"}
  /\ polled.how = "returned"
       => /\ polled.exc = ""
          /\ polled.value = NoRaw \/ WellFormed(polled.value)
  /\ polled.how = "raised"
       => /\ polled.exc \in {"PollingException", "RuntimeError"}
          /\ polled.value = NoRaw
  /\ (call.op = "poll" /\ polled.how = "raised")
       => call.how = "raised" /\ call.v = polled.exc

\* C7 witness: a poll called on its own has raised RuntimeError to its caller.
C7_Witness ==
  /\ call.op = "poll" /\ call.how = "raised"
  /\ polled.how = "raised" /\ polled.exc = "RuntimeError"

\* C8 (as claimed): whenever a raw envelope is supplied to consume_event (the
\* empty string included), the call dispatches exactly that envelope once,
\* takes nothing from the bound stream and does not poll the queue.
C8_DirectModePrecedence ==
  (call.op = "consume_event" /\ call.raw # NoRaw)
    => /\ call.mode = "direct"
       /\ call.nTaken = 0 /\ call.nPoll = 0
       /\ call.nDispatch = 1 /\ disp.raw = call.raw

\* C9 (as claimed): a consume_event call without a raw envelope on a consumer
\* with a bound event sequence (empty or exhausted ones included) never polls
\* the queue.
C9_StreamExcludesPolling ==
  (call.op = "consume_event" /\ call.raw = NoRaw /\ event_stream.kind # "None")
    => call.nPoll = 0

\* the messages that have arrived in the consume_event call so far
Arrived ==
  IF call.mode = "poll" THEN call.nPoll
  ELSE IF event_stream.kind = "generator" THEN event_stream.pos
  ELSE call.nTaken

\* C10: in stream mode and in poll-loop mode the handler calls of one
\* consume_event call happen in arrival order and one at a time: each call
\* ends before the next starts, calls are for strictly later arrivals, and
\* while a handler runs it is the handler of the latest arrival.
C10_HandlersInArrivalOrder ==
  call.mode \in {"stream", "poll"} =>
    /\ \A k \in 1..Len(hlog) :
         /\ hlog[k].idx \in 1..Arrived
         /\ (k % 2 = 1) => /\ hlog[k].ev = "start"
                            /\ k > 2 => hlog[k].idx > hlog[k - 2].idx
         /\ (k % 2 = 0) => /\ hlog[k].ev \in {"returned", "raised"}
                            /\ hlog[k].idx = hlog[k - 1].idx
    /\ (pc = "handler") <=> (Len(hlog) % 2 = 1)
    /\ pc = "handler" => disp.idx = Arrived /\ Last(hlog).idx = Arrived

\* C10 witness: a stream of three events has been drained: the handler of
\* the first raised, the second event was not handled, the handler of the
\* third was called after it.
C10_Witness ==
  /\ call.mode = "stream" /\ call.how = "returned" /\ call.nTaken = 3
  /\ Len(hlog) = 4
  /\ hlog[1].idx = 1 /\ hlog[2].ev = "raised"
  /\ hlog[3].idx = 3 /\ hlog[4].ev = "returned"

\* C11 (as claimed): between two bindings of the stream every element of the
\* bound sequence is passed to _handle_event at most once, however many
\* consume_event calls are made, for a generator and for a list alike.
C11_EachElementPassedAtMostOnce ==
  \A i \in DOMAIN passed : passed[i] <= 1

\* C12: a consume_event call in poll-loop mode with poll_times = n polls the
\* queue exactly n times: it never polls more than n times, it never ends by
\* an exception, it returns self only once n polls are made, and while
\* fewer than n polls are made it is still in its loop (or in a handler of
\* the loop), also right after a poll that raised PollingException or
\* RuntimeError.
C12_PollLoopPollsExactlyPollTimes ==
  call.mode = "poll" =>
    /\ call.nPoll <= call.poll_times
    /\ call.how \in {"running", "returned"}
    /\ call.how = "returned" => call.nPoll = call.poll_times /\ call.v = "self"
    /\ call.how = "running" =>
         /\ pc \in {"loop", "handler"}
         /\ pc = "loop" => call.nPoll < call.poll_times
    /\ call.nPoll < call.poll_times => call.how = "running"

\* C12 witness: the first of two polls raised RuntimeError and the loop is
\* about to poll a second time.
C12_Witness ==
  /\ call.mode = "poll" /\ call.poll_times = 2 /\ call.nPoll = 1
  /\ polled.how = "raised" /\ polled.exc = "RuntimeError"
  /\ pc = "loop" /\ call.how = "running"

\* the last API call was a registration
Registered == call.op \in {"register_handler", "register_event"}

\* C13: a registration overrides: right after register_handler(T, H2) or
\* register_event(mapping) the registry maps every key of the call to the
\* call's handler, whatever was registered under it before, and maps every
\* other key as before; the registry always equals the most recent
\* registration per key, and every dispatch of an envelope of a registered
\* type T calls the handler registered last for T and no other.
C13_LaterRegistrationOverrides ==
  /\ handlers = latest
  /\ Registered =>
       /\ DOMAIN handlers = DOMAIN regobs.before \cup DOMAIN regobs.arg
       /\ \A k \in DOMAIN regobs.arg : handlers[k] = regobs.arg[k]
       /\ \A k \in DOMAIN regobs.before \ DOMAIN regobs.arg :
            handlers[k] = regobs.before[k]
  /\ (Dispatched /\ WellFormed(disp.raw)
        /\ disp.raw.val.event_type \in DOMAIN latest)
       => disp.calls = <<Expected(latest, disp.raw.val)>>

\* C13 witness: a batch registration has replaced h1 by h2 for
\* ACCOUNT_CREATED and left the handler of USER_ADDED as it was.
C13_Witness ==
  /\ call.op = "register_event"
  /\ "ACCOUNT_CREATED" \in DOMAIN regobs.before
  /\ regobs.before["ACCOUNT_CREATED"] = "h1"
  /\ "USER_ADDED" \in DOMAIN regobs.before
  /\ DOMAIN regobs.arg = {"ACCOUNT_CREATED"}
  /\ handlers["ACCOUNT_CREATED"] = "h2" /\ handlers["USER_ADDED"] = "h1"

\* C14: a dispatch leaves the registry as it found it: during and after every
\* dispatch (whatever its outcome) self.handlers equals the registry the
\* dispatch began with, and during and after every consume_message and
\* consume_event call (any mode, any number of dispatches) it equals what
\* the registration calls made it.
C14_DispatchLeavesRegistry ==
  /\ Dispatched => handlers = disp.reg
  /\ call.op \in {"consume_message", "consume_event"} => handlers = latest

\* C14 witness: a stream call on a consumer with two handlers has made two
\* dispatches, a handler of it raised, and the registry is the one the last
\* dispatch began with.
C14_Witness ==
  /\ call.mode = "stream" /\ call.nDispatch = 2 /\ call.how = "returned"
  /\ \E k \in 1..Len(hlog) : hlog[k].ev = "raised"
  /\ Cardinality(DOMAIN handlers) = 2
  /\ handlers = disp.reg

\* dispatch d of consumer with registry reg is a dispatch of the message
\* polled in this iteration, by that registry alone
OwnDispatch(d, reg) ==
  d.status # "none" =>
    /\ d.raw = polled.value /\ d.reg = reg
    /\ d.status \in {"running", "returned"}
    /\ d.calls = IF d.raw.val.event_type \in DOMAIN reg
                 THEN <<Expected(reg, d.raw.val)>> ELSE <<>>

\* C15: the two consumers of test.py are independent. Each registry is what
\* the registrations on that consumer made it (a registration on one leaves
\* the other as it was); each consumer dispatches the polled message by its
\* own registry only; and whatever consumer1 did with a message (handler
\* returned, handler raised, no handler), consumer2 gets the same message:
\* the iteration of a message ends with both dispatches made and returned,
\* and no exception leaves the loop.
C15_ConsumersIndependent ==
  /\ handlers = latest /\ driver.handlers2 = driver.latest2
  /\ \A k \in DOMAIN handlers : handlers[k] = service_handler(1)
  /\ \A k \in DOMAIN driver.handlers2 : driver.handlers2[k] = service_handler(2)
  /\ OwnDispatch(disp, handlers) /\ OwnDispatch(driver.disp2, driver.handlers2)
  /\ pc \in {"t_c2", "t_h2"} =>
       disp.status = "returned" /\ driver.disp2.status \in {"none", "running"}
  /\ pc = "t_h2" => driver.disp2.status = "running"
  /\ (pc \in {"t_poll", "t_end"} /\ polled.how = "returned"
        /\ TruthyRaw(polled.value))
       => disp.status = "returned" /\ driver.disp2.status = "returned"
  /\ pc # "t_crash"

\* C15 witness: in one iteration the handler of consumer1 raised, and then
\* the handler of consumer2 was called for the same message and returned.
C15_Witness ==
  /\ prog = "test" /\ pc \in {"t_poll", "t_end"}
  /\ driver.log = <<HEvent("start", 1), HEvent("raised", 1),
                    HEvent("start", 2), HEvent("returned", 2)>>
  /\ disp.raw = driver.disp2.raw

\* the four outcomes of a poll
OutcomeKinds == {"Message", "Empty", "TransientFailure", "FatalFailure"}
\* which of them outcome out is
KindOf(out) ==
  IF out.how = "returned" /\ WellFormed(out.value) THEN "Message"
  ELSE IF out.how = "returned" /\ out.value = NoRaw THEN "Empty"
  ELSE IF out.how = "raised" /\ out.exc = "PollingException" THEN "TransientFailure"
  ELSE IF out.how = "raised" /\ out.exc = "RuntimeError" THEN "FatalFailure"
  ELSE "other"

\* C16: each SimulatedQueue.poll (ionix_consumer/SimulatedQueue.py and
\* fsd.py) has, for each of Message, Empty, TransientFailure and
\* FatalFailure, a draw of its random number that ends in that outcome, no
\* draw ends in anything else, and every poll made has ended in one of the
\* four.
C16_QueueProducesFourOutcomes ==
  /\ \A kind \in OutcomeKinds :
       /\ \E rn \in RandomIonix : KindOf(poll_ionix(rn)) = kind
       /\ \E rn \in RandomFsd : KindOf(poll_fsd(rn)) = kind
  /\ \A rn \in RandomIonix : KindOf(poll_ionix(rn)) \in OutcomeKinds
  /\ \A rn \in RandomFsd : KindOf(poll_fsd(rn)) \in OutcomeKinds
  /\ polled # NoOutcome => KindOf(polled) \in OutcomeKinds

\* C16 witness: a poll of the fsd.py queue, made by the poll loop, has ended
\* in Empty.
C16_Witness ==
  /\ prog = "fsd" /\ call.mode = "poll" /\ call.nPoll > 0
  /\ KindOf(polled) = "Empty"

\* C17 (as claimed): the simulated wait of every SimulatedQueue.poll call, in
\* milliseconds, is at most the timeout the call was made with.
C17_WaitWithinTimeout ==
  wait.slept <= wait.timeout

\* every pair of mapping m is in registry reg already
AlreadyIn(m, reg) ==
  \A k \in DOMAIN m : k \in DOMAIN reg /\ reg[k] = m[k]

\* C18: registration is idempotent. A register_handler or register_event
\* call whose pairs are all registered already leaves the registry exactly
\* as it was; and from every registry the programs reach, registering a pair
\* (a mapping) twice gives the registry that registering it once gives.
C18_RegistrationIdempotent ==
  /\ (Registered /\ AlreadyIn(regobs.arg, regobs.before))
       => handlers = regobs.before
  /\ \A r \in Registrations :
       handlers_set(handlers_set(handlers, r[1], r[2]), r[1], r[2])
         = handlers_set(handlers, r[1], r[2])
  /\ \A m \in Mappings :
       handlers_update(handlers_update(handlers, m), m)
         = handlers_update(handlers, m)

\* C18 witness: register_handler was called with a pair that a registry of
\* two handlers held already, and the registry is as before.
C18_Witness ==
  /\ call.op = "register_handler"
  /\ AlreadyIn(regobs.arg, regobs.before)
  /\ Cardinality(DOMAIN regobs.before) = 2
  /\ handlers = regobs.before

\* C19: in poll-loop mode every poll outcome is handled in its own
\* iteration. After a poll that returned a message, that message is the one
\* dispatched, as the dispatch of this iteration, and no poll is made while
\* its handler runs; after a poll that returned nothing or raised, no
\* dispatch and no handler call belongs to this iteration. The dispatch
\* calls of the invocation are as many as the messages its polls returned,
\* and at most one handler call is made per dispatch.
C19_OneDispatchPerMessagePolled ==
  (call.mode = "poll" /\ call.nPoll > 0) =>
    /\ call.nDispatch = call.nMessage
    /\ call.nDispatch <= call.nPoll
    /\ KindOf(polled) = "Message" =>
         /\ disp.raw = polled.value /\ disp.idx = call.nPoll
         /\ Len(disp.calls) <= 1
         /\ (pc = "handler") <=> (disp.status = "running")
    /\ KindOf(polled) # "Message" =>
         /\ disp.idx < call.nPoll
         /\ pc # "handler" /\ disp.status # "running"
         /\ \A k \in 1..Len(hlog) : hlog[k].idx < call.nPoll
    /\ Len(hlog) <= 2 * call.nDispatch

\* C19 witness: an invocation with two polls has returned: the first poll
\* returned a message, which was dispatched to a handler, and the second
\* returned nothing.
C19_Witness ==
  /\ call.mode = "poll" /\ call.how = "returned" /\ call.nPoll = 2
  /\ call.nDispatch = 1 /\ disp.idx = 1 /\ Len(hlog) = 2
  /\ KindOf(polled) = "Empty"

\* C20 (as claimed): on a consumer shared by two threads, every
\* consume_message of an event of a registered type calls exactly one
\* handler, once, and no call of a handler starts after a register_handler
\* that replaced it for that type has returned.
C20_RegistrationSynchronizedWithDispatch ==
  /\ Len(threads.calls) <= 1
  /\ threads.apc = "handler" => threads.calls = <<threads.ah>>
  /\ ~threads.late

====
